---- MODULE Spec2Model ----
(***************************************************************************)
(* Pediatric Anesthesia Calculator (src/src/App.tsx).                      *)
(*                                                                         *)
(* The App component holds eight pieces of raw input state (strings and    *)
(* unit tags) and derives every displayed value from them on each render.  *)
(* The model keeps the raw inputs and the derived (memoised) values as     *)
(* state; each input-change event is one action that sets one raw input    *)
(* and re-renders.                                                         *)
(*                                                                         *)
(* Numbers.  A JavaScript number is modelled as an exact rational          *)
(* [n |-> numerator, d |-> denominator] in lowest terms with d > 0; NaN    *)
(* is 0/0, Infinity is 1/0 and the value `undefined` is a record of its    *)
(* own.  Binary floating-point representation error is not modelled.       *)
(***************************************************************************)
EXTENDS Integers, Sequences, FiniteSets, TLC

(* ------------------------------ numbers ------------------------------ *)

undefined == [undef |-> TRUE]
NaN       == [n |-> 0, d |-> 0]
Infinity  == [n |-> 1, d |-> 0]

Abs(i) == IF i < 0 THEN -i ELSE i

RECURSIVE GCD(_, _)
GCD(a, b) == IF b = 0 THEN a ELSE GCD(b, a % b)

\* The rational num/den (den # 0) in lowest terms with a positive denominator.
R(num, den) ==
    LET g == GCD(Abs(num), Abs(den))
        s == IF den < 0 THEN -1 ELSE 1
    IN  [n |-> s * (num \div g), d |-> s * (den \div g)]

Num(i) == [n |-> i, d |-> 1]
Zero   == Num(0)

IsNumber(x) == x # undefined /\ x # NaN /\ x # Infinity

\* a + b
Add(a, b) ==
    LET g == GCD(a.d, b.d)
    IN  R(a.n * (b.d \div g) + b.n * (a.d \div g), (a.d \div g) * b.d)

\* a - b
Sub(a, b) == Add(a, [n |-> -b.n, d |-> b.d])

\* a * b, cancelling across before multiplying
Mul(a, b) ==
    IF a.n = 0 \/ b.n = 0 THEN Zero
    ELSE LET g1 == GCD(Abs(a.n), b.d)
             g2 == GCD(Abs(b.n), a.d)
         IN  [n |-> (a.n \div g1) * (b.n \div g2),
              d |-> (a.d \div g2) * (b.d \div g1)]

\* a / b for b # 0
Div(a, b) ==
    Mul(a, IF b.n < 0 THEN [n |-> -b.d, d |-> -b.n] ELSE [n |-> b.d, d |-> b.n])

\* a < b, a <= b; Infinity is above every number
Lt(a, b) ==
    IF a = Infinity THEN FALSE
    ELSE IF b = Infinity THEN TRUE
    ELSE LET g == GCD(a.d, b.d)
         IN  a.n * (b.d \div g) < b.n * (a.d \div g)
Le(a, b) == a = b \/ Lt(a, b)

\* Math.min(a, b)
MathMin(a, b) == IF Lt(b, a) THEN b ELSE a

\* Math.round(x): the nearest integer, an exact half going up (towards +Infinity)
MathRound(x) ==
    LET q == x.n \div x.d
        r == x.n % x.d
    IN  Num(IF 2 * r >= x.d THEN q + 1 ELSE q)

RECURSIVE Pow10(_)
Pow10(k) == IF k = 0 THEN 1 ELSE 10 * Pow10(k - 1)

\* !x for a number or undefined: undefined, NaN and 0 are falsy
Falsy(x) == x = undefined \/ x = NaN \/ x = Zero

(* ---------------------------- small utils ---------------------------- *)

\* round(n, d) = Math.round(n * 10 ** d) / 10 ** d
round(n, d) == Div(MathRound(Mul(n, Num(Pow10(d)))), Num(Pow10(d)))

\* roundTo(n, step) = Math.round(n / step) * step
roundTo(n, step) == Mul(MathRound(Div(n, step)), step)

\* unit helpers.  KG_PER_LB = 1 / 2.2046226218 = 0.45359237...; the factor is
\* kept to four significant digits (0.4536) so that products stay within the
\* 32-bit integers of the checker.
KG_PER_LB == R(4536, 10000)

(* ------------------------------ parsing ------------------------------ *)

\* A raw input is a string; Char(s, i) is its i-th character.
Char(s, i) == SubSeq(s, i, i)

IsDigit(c) == c \in {"0", "1", "2", "3", "4", "5", "6", "7", "8", "9"}

DigitVal(c) ==
    CASE c = "0" -> 0 [] c = "1" -> 1 [] c = "2" -> 2 [] c = "3" -> 3
      [] c = "4" -> 4 [] c = "5" -> 5 [] c = "6" -> 6 [] c = "7" -> 7
      [] c = "8" -> 8 [] c = "9" -> 9

\* The index just past the run of digits of s that starts at i.
RECURSIVE DigitsEnd(_, _)
DigitsEnd(s, i) ==
    IF i <= Len(s) /\ IsDigit(Char(s, i)) THEN DigitsEnd(s, i + 1) ELSE i

\* The value of the digits s[i..j-1] appended to the value acc.
RECURSIVE DigitsValue(_, _, _, _)
DigitsValue(s, i, j, acc) ==
    IF i >= j THEN acc ELSE DigitsValue(s, i + 1, j, 10 * acc + DigitVal(Char(s, i)))

\* parseFloat(s): the longest prefix of s of the form [+-] digits [. digits]
\* (at least one digit) as a number, NaN when there is none.  Leading white
\* space and exponents, which the sampled inputs do not use, are left out.
parseFloat(s) ==
    LET signed == Len(s) >= 1 /\ Char(s, 1) \in {"-", "+"}
        neg    == Len(s) >= 1 /\ Char(s, 1) = "-"
        i1     == IF signed THEN 2 ELSE 1
        i2     == DigitsEnd(s, i1)
        hasDot == i2 <= Len(s) /\ Char(s, i2) = "."
        i3     == IF hasDot THEN DigitsEnd(s, i2 + 1) ELSE i2
        nFrac  == IF hasDot THEN i3 - (i2 + 1) ELSE 0
    IN  IF (i2 - i1) + nFrac = 0 THEN NaN
        ELSE LET whole == DigitsValue(s, i1, i2, 0)
                 mant  == IF hasDot THEN DigitsValue(s, i2 + 1, i3, whole) ELSE whole
             IN  R(IF neg THEN -mant ELSE mant, Pow10(nFrac))

\* Number.isNaN(x)
isNaN(x) == x = NaN

\* s || "0"
OrZero(s) == IF s = "" THEN "0" ELSE s

parseWeight(v, unit) ==
    LET num == parseFloat(v)
    IN  IF isNaN(num) THEN undefined
        ELSE IF unit = "kg" THEN num ELSE Mul(num, KG_PER_LB)

parseHeightCm(cmValue, ftValue, inValue, unit) ==
    IF unit = "cm"
    THEN LET cm0 == parseFloat(cmValue)
         IN  IF isNaN(cm0) THEN undefined ELSE cm0
    ELSE LET ft   == parseFloat(ftValue)
             inch == parseFloat(inValue)
         IN  IF isNaN(ft) /\ isNaN(inch) THEN undefined
             ELSE LET totalIn == Add(IF isNaN(ft) THEN Zero ELSE Mul(ft, Num(12)),
                                     IF isNaN(inch) THEN Zero ELSE inch)
                  IN  Mul(totalIn, R(254, 100))

\* parseAgeYears with a field counted as supplied only when it is truthy
\* text with a non-zero value.
parseAgeYears_zeroAbsent(yrs, mos) ==
    LET y    == parseFloat(OrZero(yrs))
        m    == parseFloat(OrZero(mos))
        hasY == ~isNaN(y) /\ y # Zero
        hasM == ~isNaN(m) /\ m # Zero
    IN  IF ~hasY /\ ~hasM THEN undefined
        ELSE Add(IF hasY THEN y ELSE Zero, IF hasM THEN Div(m, Num(12)) ELSE Zero)

parseAgeYears(yrs, mos) ==
    LET y    == parseFloat(OrZero(yrs))
        m    == parseFloat(OrZero(mos))
        hasY == ~isNaN(y) /\ yrs # ""
        hasM == ~isNaN(m) /\ mos # ""
    IN  IF ~hasY /\ ~hasM THEN undefined
        ELSE Add(IF hasY THEN y ELSE Zero, IF hasM THEN Div(m, Num(12)) ELSE Zero)

(* -------------------------------- BMI -------------------------------- *)

bmiFromKgCm(kg0, cm0) ==
    IF Falsy(kg0) \/ Falsy(cm0) THEN undefined
    ELSE LET m == Div(cm0, Num(100))
         IN  IF Lt(Zero, m) THEN Div(kg0, Mul(m, m)) ELSE undefined

(* ---------------------- dosing helpers and data ---------------------- *)

\* A template literal `${a} ${units}` or `${a}-${b} ${units}` is kept as its
\* parts: the numbers it prints and the unit text.
Single(v, u)   == [value |-> v, units |-> u]
Range(a, b, u) == [low |-> a, high |-> b, units |-> u]

\* calcDoseRange with the cap applied to the high bound only.
calcDoseRange_lowUncapped(kg0, minPerKg, maxPerKg, opts) ==
    LET units == opts.units
        step  == opts.roundTo
        cap   == opts.cap
        low   == Mul(minPerKg, kg0)
        high  == MathMin(Mul(maxPerKg, kg0), cap)
    IN  IF low = high THEN Single(roundTo(low, step), units)
        ELSE Range(roundTo(low, step), roundTo(high, step), units)

\* opts is always passed with units, roundTo and cap set (line 201), so the
\* defaults of lines 63-65 are never taken.
calcDoseRange(kg0, minPerKg, maxPerKg, opts) ==
    LET units == opts.units
        step  == opts.roundTo
        cap   == opts.cap
        low   == MathMin(Mul(minPerKg, kg0), cap)
        high  == MathMin(Mul(maxPerKg, kg0), cap)
    IN  IF low = high THEN Single(roundTo(low, step), units)
        ELSE Range(roundTo(low, step), roundTo(high, step), units)

\* Common pediatric anesthesia meds
MEDS == <<
    [name |-> "Propofol (induction)", perKg |-> <<Num(2), Num(3)>>, units |-> "mg", note |-> "Titrate to effect"],
    [name |-> "Ketamine (IV)", perKg |-> <<Num(1), Num(2)>>, units |-> "mg", note |-> "Analgesic/sedative"],
    [name |-> "Fentanyl", perKg |-> <<Num(1), Num(2)>>, units |-> "mcg", note |-> "Slow IV"],
    [name |-> "Morphine", perKg |-> <<R(5, 100), R(1, 10)>>, units |-> "mg", note |-> "Slow IV"],
    [name |-> "Midazolam (IV)", perKg |-> <<R(5, 100), R(1, 10)>>, units |-> "mg", note |-> "Titrate"],
    [name |-> "Rocuronium", perKg |-> <<R(6, 10), R(12, 10)>>, units |-> "mg", note |-> "Intubating dose"],
    [name |-> "Succinylcholine", perKg |-> <<Num(1), Num(2)>>, units |-> "mg", note |-> "Avoid if contraindicated"],
    [name |-> "Atropine", perKg |-> <<R(2, 100), R(2, 100)>>, units |-> "mg", note |-> "Min 0.1 mg; cap 1 mg"],
    [name |-> "Epinephrine 0.1 mg/mL (code)", perKg |-> <<R(1, 100), R(1, 100)>>, units |-> "mg", note |-> "0.1 mL/kg of 0.1 mg/mL"],
    [name |-> "Dexamethasone", perKg |-> <<R(1, 10), R(5, 10)>>, units |-> "mg", note |-> "PONV/airway edema"],
    [name |-> "Ondansetron", perKg |-> <<R(1, 10), R(15, 100)>>, units |-> "mg", note |-> "Max 4 mg"],
    [name |-> "Acetaminophen (IV)", perKg |-> <<Num(10), Num(15)>>, units |-> "mg", note |-> "q6h; max 75 mg/kg/day"],
    [name |-> "Ibuprofen (PO)", perKg |-> <<Num(10), Num(10)>>, units |-> "mg", note |-> "q6-8h; max 40 mg/kg/day"],
    [name |-> "Lidocaine (plain) - max", perKg |-> <<Num(3), Num(5)>>, units |-> "mg", note |-> "Max w/o epi"],
    [name |-> "Lidocaine w/ epi - max", perKg |-> <<Num(7), Num(7)>>, units |-> "mg", note |-> "Max with epi"],
    [name |-> "Bupivacaine - max", perKg |-> <<Num(2), Num(3)>>, units |-> "mg", note |-> "Regional/local"] >>

(* --------------------------- airway helpers --------------------------- *)

suggestBlade(ageYears) ==
    IF ageYears = undefined THEN "Miller 0-1 (infant) or Mac 2+ as age increases"
    ELSE IF Lt(ageYears, R(25, 100)) THEN "Miller 0 (preterm/term)"
    ELSE IF Lt(ageYears, Num(1)) THEN "Miller 0-1"
    ELSE IF Lt(ageYears, Num(2)) THEN "Miller 1 (or Mac 1-2)"
    ELSE IF Lt(ageYears, Num(5)) THEN "Mac 2 (or Miller 2 per preference)"
    ELSE IF Lt(ageYears, Num(10)) THEN "Mac 2-3"
    ELSE "Mac 3 (or video laryngoscope as per device)"

\* ettSizes with the age formula taken only when the weight is known too.
ettSizes_ageNeedsWeight(ageYears, kg0) ==
    IF ageYears # undefined /\ Le(Num(1), ageYears) /\ kg0 # undefined
    THEN [uncuffed |-> Add(Div(ageYears, Num(4)), Num(4)),
          cuffed   |-> Add(Div(ageYears, Num(4)), R(35, 10))]
    ELSE IF kg0 # undefined
    THEN IF Lt(kg0, R(15, 10))   THEN [cuffed |-> R(25, 10), uncuffed |-> R(25, 10)]
         ELSE IF Lt(kg0, Num(3)) THEN [cuffed |-> Num(3), uncuffed |-> Num(3)]
         ELSE IF Lt(kg0, Num(4)) THEN [cuffed |-> R(35, 10), uncuffed |-> R(35, 10)]
         ELSE                         [cuffed |-> R(35, 10), uncuffed |-> R(35, 10)]
    ELSE [cuffed |-> undefined, uncuffed |-> undefined]

\* ettSizes with the weight brackets tried before the age formula.
ettSizes_weightFirst(ageYears, kg0) ==
    IF kg0 # undefined
    THEN IF Lt(kg0, R(15, 10))   THEN [cuffed |-> R(25, 10), uncuffed |-> R(25, 10)]
         ELSE IF Lt(kg0, Num(3)) THEN [cuffed |-> Num(3), uncuffed |-> Num(3)]
         ELSE IF Lt(kg0, Num(4)) THEN [cuffed |-> R(35, 10), uncuffed |-> R(35, 10)]
         ELSE                         [cuffed |-> R(35, 10), uncuffed |-> R(35, 10)]
    ELSE IF ageYears # undefined /\ Le(Num(1), ageYears)
    THEN [uncuffed |-> Add(Div(ageYears, Num(4)), Num(4)),
          cuffed   |-> Add(Div(ageYears, Num(4)), R(35, 10))]
    ELSE [cuffed |-> undefined, uncuffed |-> undefined]

\* ettSizes with the brackets closed on the upper bound (<= for <).
ettSizes_closedAbove(ageYears, kg0) ==
    IF ageYears # undefined /\ Le(Num(1), ageYears)
    THEN [uncuffed |-> Add(Div(ageYears, Num(4)), Num(4)),
          cuffed   |-> Add(Div(ageYears, Num(4)), R(35, 10))]
    ELSE IF kg0 # undefined
    THEN IF Le(kg0, R(15, 10))   THEN [cuffed |-> R(25, 10), uncuffed |-> R(25, 10)]
         ELSE IF Le(kg0, Num(3)) THEN [cuffed |-> Num(3), uncuffed |-> Num(3)]
         ELSE IF Le(kg0, Num(4)) THEN [cuffed |-> R(35, 10), uncuffed |-> R(35, 10)]
         ELSE                         [cuffed |-> R(35, 10), uncuffed |-> R(35, 10)]
    ELSE [cuffed |-> undefined, uncuffed |-> undefined]

\* ettSizes with a 4.0 mm size from 4 kg up.
ettSizes_fourAbove4(ageYears, kg0) ==
    IF ageYears # undefined /\ Le(Num(1), ageYears)
    THEN [uncuffed |-> Add(Div(ageYears, Num(4)), Num(4)),
          cuffed   |-> Add(Div(ageYears, Num(4)), R(35, 10))]
    ELSE IF kg0 # undefined
    THEN IF Lt(kg0, R(15, 10))   THEN [cuffed |-> R(25, 10), uncuffed |-> R(25, 10)]
         ELSE IF Lt(kg0, Num(3)) THEN [cuffed |-> Num(3), uncuffed |-> Num(3)]
         ELSE IF Lt(kg0, Num(4)) THEN [cuffed |-> R(35, 10), uncuffed |-> R(35, 10)]
         ELSE                         [cuffed |-> Num(4), uncuffed |-> Num(4)]
    ELSE [cuffed |-> undefined, uncuffed |-> undefined]

\* The cuffed and uncuffed sizes before rounding (lines 98-111).
ettSizes(ageYears, kg0) ==
    IF ageYears # undefined /\ Le(Num(1), ageYears)
    THEN [uncuffed |-> Add(Div(ageYears, Num(4)), Num(4)),
          cuffed   |-> Add(Div(ageYears, Num(4)), R(35, 10))]
    ELSE IF kg0 # undefined
    THEN IF Lt(kg0, R(15, 10))   THEN [cuffed |-> R(25, 10), uncuffed |-> R(25, 10)]
         ELSE IF Lt(kg0, Num(3)) THEN [cuffed |-> Num(3), uncuffed |-> Num(3)]
         ELSE IF Lt(kg0, Num(4)) THEN [cuffed |-> R(35, 10), uncuffed |-> R(35, 10)]
         ELSE                         [cuffed |-> R(35, 10), uncuffed |-> R(35, 10)]
    ELSE [cuffed |-> undefined, uncuffed |-> undefined]

ettForAgeWeight(ageYears, kg0) ==
    LET sizes       == ettSizes(ageYears, kg0)
        cuffed      == sizes.cuffed
        uncuffed    == sizes.uncuffed
        size        == IF cuffed # undefined THEN cuffed ELSE uncuffed
        depthBySize == IF Falsy(size) THEN undefined ELSE Mul(Num(3), size)
        depthByAge  == IF ageYears # undefined
                       THEN Add(Num(12), Div(ageYears, Num(2))) ELSE undefined
    IN  [cuffed      |-> IF Falsy(size) THEN undefined ELSE roundTo(size, R(1, 2)),
         uncuffed    |-> IF Falsy(uncuffed) THEN undefined ELSE roundTo(uncuffed, R(1, 2)),
         depthBySize |-> IF Falsy(depthBySize) THEN undefined ELSE round(depthBySize, 1),
         depthByAge  |-> IF Falsy(depthByAge) THEN undefined ELSE round(depthByAge, 1),
         blade       |-> suggestBlade(ageYears)]

(* ------------------------------- fluids ------------------------------- *)

\* The middle branch without the offset of the first 10 kg.
mIV_next10_noOffset(kg0) == Add(Num(40), Mul(Num(2), kg0))

\* The three branches of the 4-2-1 rule (lines 141, 142, 143).
mIV_first10(kg0)  == Mul(Num(4), kg0)
mIV_next10(kg0)   == Add(Num(40), Mul(Num(2), Sub(kg0, Num(10))))
mIV_beyond20(kg0) == Add(Num(60), Sub(kg0, Num(20)))

mIV_421(kg0) ==
    IF Le(kg0, Zero) THEN Zero
    ELSE IF Le(kg0, Num(10)) THEN mIV_first10(kg0)
    ELSE IF Le(kg0, Num(20)) THEN mIV_next10(kg0)
    ELSE mIV_beyond20(kg0)

bolus20(kg0) == IF Falsy(kg0) THEN undefined ELSE Mul(Num(20), kg0)

(* ------------------ PALS quick calcs (cardiac arrest) ------------------ *)

palsShockEnergies(kg0) ==
    IF Falsy(kg0) THEN undefined
    ELSE [first          |-> Mul(Num(2), kg0),
          second         |-> Mul(Num(4), kg0),
          subsequentLow  |-> Mul(Num(4), kg0),
          subsequentHigh |-> Mul(Num(10), kg0)]

\* palsEpiArrest with the two rounding precisions swapped.
palsEpiArrest_swappedDigits(kg0) ==
    IF Falsy(kg0) THEN undefined
    ELSE LET mg == Mul(R(1, 100), kg0)
             mL == Mul(R(1, 10), kg0)
         IN  [mg |-> round(mg, 2), mL |-> round(mL, 3)]

palsEpiArrest(kg0) ==
    IF Falsy(kg0) THEN undefined
    ELSE LET mg == Mul(R(1, 100), kg0)
             mL == Mul(R(1, 10), kg0)
         IN  [mg |-> round(mg, 3), mL |-> round(mL, 2)]

(* --------------------------------- App --------------------------------- *)

\* name.startsWith(prefix)
startsWith(name, prefix) ==
    Len(name) >= Len(prefix) /\ SubSeq(name, 1, Len(prefix)) = prefix

\* The absolute cap of a milligram entry (lines 198-200).
capFor(name) ==
    LET cap0 == Infinity
        cap1 == IF startsWith(name, "Ondansetron") THEN Num(4) ELSE cap0
    IN  IF startsWith(name, "Atropine") THEN Num(1) ELSE cap1

\* The calculated-dose label of a microgram entry (lines 194-196).
mcgDose(kg0, minPk, maxPk) ==
    LET low  == Mul(minPk, kg0)
        high == Mul(maxPk, kg0)
    IN  IF low = high THEN Single(roundTo(low, Num(1)), "mcg")
        ELSE Range(roundTo(low, Num(1)), roundTo(high, Num(1)), "mcg")

\* One row of the medication table (lines 189-205).
medRow(m, kg0) ==
    LET minPk == m.perKg[1]
        maxPk == m.perKg[2]
        units == m.units
        calc  == IF units = "mcg" THEN mcgDose(kg0, minPk, maxPk)
                 ELSE calcDoseRange(kg0, minPk, maxPk,
                          [units |-> "mg", roundTo |-> R(5, 100), cap |-> capFor(m.name)])
        perkgLabel == IF minPk = maxPk THEN Single(minPk, units \o "/kg")
                      ELSE Range(minPk, maxPk, units \o "/kg")
    IN  [name |-> m.name, perkg |-> perkgLabel, calc |-> calc, note |-> m.note]

medRowsFor(kg0) ==
    IF Falsy(kg0) THEN << >> ELSE [i \in 1..Len(MEDS) |-> medRow(MEDS[i], kg0)]

\* lmaFor with the brackets closed on the upper bound (<= for <).
lmaFor_closedAbove(kg0) ==
    IF Falsy(kg0) THEN undefined
    ELSE IF Le(kg0, Num(5))  THEN [size |-> Num(1), range |-> "<5 kg"]
    ELSE IF Le(kg0, Num(10)) THEN [size |-> R(15, 10), range |-> "5-10 kg"]
    ELSE IF Le(kg0, Num(20)) THEN [size |-> Num(2), range |-> "10-20 kg"]
    ELSE IF Le(kg0, Num(30)) THEN [size |-> R(25, 10), range |-> "20-30 kg"]
    ELSE IF Le(kg0, Num(50)) THEN [size |-> Num(3), range |-> "30-50 kg"]
    ELSE IF Le(kg0, Num(70)) THEN [size |-> Num(4), range |-> "50-70 kg"]
    ELSE [size |-> Num(5), range |-> ">=70 kg"]

lmaFor(kg0) ==
    IF Falsy(kg0) THEN undefined
    ELSE IF Lt(kg0, Num(5))  THEN [size |-> Num(1), range |-> "<5 kg"]
    ELSE IF Lt(kg0, Num(10)) THEN [size |-> R(15, 10), range |-> "5-10 kg"]
    ELSE IF Lt(kg0, Num(20)) THEN [size |-> Num(2), range |-> "10-20 kg"]
    ELSE IF Lt(kg0, Num(30)) THEN [size |-> R(25, 10), range |-> "20-30 kg"]
    ELSE IF Lt(kg0, Num(50)) THEN [size |-> Num(3), range |-> "30-50 kg"]
    ELSE IF Lt(kg0, Num(70)) THEN [size |-> Num(4), range |-> "50-70 kg"]
    ELSE [size |-> Num(5), range |-> ">=70 kg"]

\* The text "undefined" stands for the value undefined here, text and records
\* not being comparable.
circuitFor(kg0) ==
    IF Falsy(kg0) THEN "undefined"
    ELSE IF Lt(kg0, Num(10)) THEN "Infant/pediatric circuit (low compliance)"
    ELSE IF Lt(kg0, Num(20)) THEN "Pediatric circuit"
    ELSE "Adult circuit"

mivFor(kg0) == IF Falsy(kg0) THEN undefined ELSE mIV_421(kg0)

(* ------------------------------- inputs ------------------------------- *)

\* The raw strings the input fields are given, and how many of each are used.
WeightSamples ==
    << "", "0", "-5", "abc", "0.5", "1.5", "3", "4", "5", "10", "20", "30",
       "39.9", "40", "50", "70", "100", "20.5", "51", "1.4", "2.9" >>
NumWeightSamples == 17

AgeYearsSamples  == << "", "0", "1", "3", "-2", "abc", "8", "0.5" >>
NumAgeYearsSamples == 6

AgeMonthsSamples == << "", "8", "0", "abc", "18" >>
NumAgeMonthsSamples == 3

HeightCmSamples == << "", "100", "0", "-50" >>
NumHeightCmSamples == 2

\* The feet and inches fields are each left empty or given one value.
HeightFtSamples == { "", "3" }
HeightInSamples == { "", "-40" }

Take(samples, k) == {samples[i] : i \in 1..k}

(* -------------------------------- state -------------------------------- *)

VARIABLES
    weightValue, weightUnit, heightUnit,
    heightCmValue, heightFtValue, heightInValue,
    ageYearsValue, ageMonthsValue,
    kg, cm, ageY, bmi, medRows, lma, circuit, airway, miv, bolus, shocks, epi

inputs  == << weightValue, weightUnit, heightUnit, heightCmValue, heightFtValue,
              heightInValue, ageYearsValue, ageMonthsValue >>
derived == << kg, cm, ageY, bmi, medRows, lma, circuit, airway, miv, bolus, shocks, epi >>
vars    == << inputs, derived >>

\* The first render: every useState starts empty, weight in kg, height in cm.
Init ==
    /\ weightValue = "" /\ weightUnit = "kg"
    /\ heightUnit = "cm"
    /\ heightCmValue = "" /\ heightFtValue = "" /\ heightInValue = ""
    /\ ageYearsValue = "" /\ ageMonthsValue = ""
    /\ kg = parseWeight(weightValue, weightUnit)
    /\ cm = parseHeightCm(heightCmValue, heightFtValue, heightInValue, heightUnit)
    /\ ageY = parseAgeYears(ageYearsValue, ageMonthsValue)
    /\ bmi = bmiFromKgCm(kg, cm)
    /\ medRows = medRowsFor(kg)
    /\ lma = lmaFor(kg)
    /\ circuit = circuitFor(kg)
    /\ airway = ettForAgeWeight(ageY, kg)
    /\ miv = mivFor(kg)
    /\ bolus = bolus20(kg)
    /\ shocks = palsShockEnergies(kg)
    /\ epi = palsEpiArrest(kg)

\* Render with weightUnit left out of the dependency list of the kg memo.
Render_kgMemoWithoutUnit ==
    /\ kg' = IF weightValue' # weightValue
             THEN parseWeight(weightValue', weightUnit') ELSE kg
    /\ cm' = IF << heightUnit', heightCmValue', heightFtValue', heightInValue' >>
                # << heightUnit, heightCmValue, heightFtValue, heightInValue >>
             THEN parseHeightCm(heightCmValue', heightFtValue', heightInValue', heightUnit')
             ELSE cm
    /\ ageY' = IF << ageYearsValue', ageMonthsValue' >> # << ageYearsValue, ageMonthsValue >>
               THEN parseAgeYears(ageYearsValue', ageMonthsValue') ELSE ageY
    /\ bmi' = IF << kg', cm' >> # << kg, cm >> THEN bmiFromKgCm(kg', cm') ELSE bmi
    /\ medRows' = IF kg' # kg THEN medRowsFor(kg') ELSE medRows
    /\ lma' = lmaFor(kg')
    /\ circuit' = circuitFor(kg')
    /\ airway' = IF << ageY', kg' >> # << ageY, kg >> THEN ettForAgeWeight(ageY', kg') ELSE airway
    /\ miv' = IF kg' # kg THEN mivFor(kg') ELSE miv
    /\ bolus' = IF kg' # kg THEN bolus20(kg') ELSE bolus
    /\ shocks' = IF kg' # kg THEN palsShockEnergies(kg') ELSE shocks
    /\ epi' = IF kg' # kg THEN palsEpiArrest(kg') ELSE epi

\* A re-render after the raw inputs changed: each useMemo recomputes when one
\* of its dependencies differs from the previous render and otherwise keeps
\* its value; lma and circuit are computed on every render.
Render ==
    /\ kg' = IF << weightValue', weightUnit' >> # << weightValue, weightUnit >>
             THEN parseWeight(weightValue', weightUnit') ELSE kg
    /\ cm' = IF << heightUnit', heightCmValue', heightFtValue', heightInValue' >>
                # << heightUnit, heightCmValue, heightFtValue, heightInValue >>
             THEN parseHeightCm(heightCmValue', heightFtValue', heightInValue', heightUnit')
             ELSE cm
    /\ ageY' = IF << ageYearsValue', ageMonthsValue' >> # << ageYearsValue, ageMonthsValue >>
               THEN parseAgeYears(ageYearsValue', ageMonthsValue') ELSE ageY
    /\ bmi' = IF << kg', cm' >> # << kg, cm >> THEN bmiFromKgCm(kg', cm') ELSE bmi
    /\ medRows' = IF kg' # kg THEN medRowsFor(kg') ELSE medRows
    /\ lma' = lmaFor(kg')
    /\ circuit' = circuitFor(kg')
    /\ airway' = IF << ageY', kg' >> # << ageY, kg >> THEN ettForAgeWeight(ageY', kg') ELSE airway
    /\ miv' = IF kg' # kg THEN mivFor(kg') ELSE miv
    /\ bolus' = IF kg' # kg THEN bolus20(kg') ELSE bolus
    /\ shocks' = IF kg' # kg THEN palsShockEnergies(kg') ELSE shocks
    /\ epi' = IF kg' # kg THEN palsEpiArrest(kg') ELSE epi

setWeightValue(v) ==
    /\ weightValue' = v
    /\ UNCHANGED << weightUnit, heightUnit, heightCmValue, heightFtValue, heightInValue,
                    ageYearsValue, ageMonthsValue >>
    /\ Render

setWeightUnit(u) ==
    /\ weightUnit' = u
    /\ UNCHANGED << weightValue, heightUnit, heightCmValue, heightFtValue, heightInValue,
                    ageYearsValue, ageMonthsValue >>
    /\ Render

setHeightUnit(u) ==
    /\ heightUnit' = u
    /\ UNCHANGED << weightValue, weightUnit, heightCmValue, heightFtValue, heightInValue,
                    ageYearsValue, ageMonthsValue >>
    /\ Render

setHeightCmValue(v) ==
    /\ heightUnit = "cm"
    /\ heightCmValue' = v
    /\ UNCHANGED << weightValue, weightUnit, heightUnit, heightFtValue, heightInValue,
                    ageYearsValue, ageMonthsValue >>
    /\ Render

setHeightFtValue(v) ==
    /\ heightUnit = "ftin"
    /\ heightFtValue' = v
    /\ UNCHANGED << weightValue, weightUnit, heightUnit, heightCmValue, heightInValue,
                    ageYearsValue, ageMonthsValue >>
    /\ Render

setHeightInValue(v) ==
    /\ heightUnit = "ftin"
    /\ heightInValue' = v
    /\ UNCHANGED << weightValue, weightUnit, heightUnit, heightCmValue, heightFtValue,
                    ageYearsValue, ageMonthsValue >>
    /\ Render

setAgeYearsValue(v) ==
    /\ ageYearsValue' = v
    /\ UNCHANGED << weightValue, weightUnit, heightUnit, heightCmValue, heightFtValue,
                    heightInValue, ageMonthsValue >>
    /\ Render

setAgeMonthsValue(v) ==
    /\ ageMonthsValue' = v
    /\ UNCHANGED << weightValue, weightUnit, heightUnit, heightCmValue, heightFtValue,
                    heightInValue, ageYearsValue >>
    /\ Render

Next ==
    \/ \E v \in Take(WeightSamples, NumWeightSamples) : setWeightValue(v)
    \/ \E u \in {"kg", "lb"} : setWeightUnit(u)
    \/ \E u \in {"cm", "ftin"} : setHeightUnit(u)
    \/ \E v \in Take(HeightCmSamples, NumHeightCmSamples) : setHeightCmValue(v)
    \/ \E v \in HeightFtSamples : setHeightFtValue(v)
    \/ \E v \in HeightInSamples : setHeightInValue(v)
    \/ \E v \in Take(AgeYearsSamples, NumAgeYearsSamples) : setAgeYearsValue(v)
    \/ \E v \in Take(AgeMonthsSamples, NumAgeMonthsSamples) : setAgeMonthsValue(v)

Spec == Init /\ [][Next]_vars

(* ------------------------------- claims ------------------------------- *)

\* A weight that is known and above zero.
KnownPositive(x) == IsNumber(x) /\ Lt(Zero, x)

\* The numbers a dose label shows.
ShownValues(label) ==
    IF "value" \in DOMAIN label THEN {label.value} ELSE {label.low, label.high}

\* The entries with an absolute cap, as the dosing contract lists them (mg).
CappedEntries == { << "Ondansetron", Num(4) >>, << "Atropine", Num(1) >> }

\* C1: for every known weight kg > 0 and every entry with an absolute cap,
\* every value shown in the calculated dose is at most the cap, and when
\* minPerKg * kg exceeds the cap the dose shown is the cap alone.
C1_CapRespected ==
    KnownPositive(kg) =>
        /\ Len(medRows) = Len(MEDS)
        /\ \A i \in 1..Len(MEDS) : \A c \in CappedEntries :
               MEDS[i].name = c[1] =>
                   /\ medRows[i].name = c[1]
                   /\ \A v \in ShownValues(medRows[i].calc) : Le(v, c[2])
                   /\ Lt(c[2], Mul(MEDS[i].perKg[1], kg)) =>
                          ShownValues(medRows[i].calc) = {c[2]}

\* C1 witness: Atropine at 100 kg (raw dose 2 mg) is shown as 1 mg.
C1_Witness ==
    /\ kg = Num(100)
    /\ \E i \in 1..Len(medRows) :
           medRows[i].name = "Atropine" /\ medRows[i].calc = Single(Num(1), "mg")

\* The blade suggestion by age, as the airway contract lists it.
BladeByAge(age) ==
    IF age = undefined THEN "Miller 0-1 (infant) or Mac 2+ as age increases"
    ELSE IF Lt(age, R(1, 4)) THEN "Miller 0 (preterm/term)"
    ELSE IF Lt(age, Num(1)) THEN "Miller 0-1"
    ELSE IF Lt(age, Num(2)) THEN "Miller 1 (or Mac 1-2)"
    ELSE IF Lt(age, Num(5)) THEN "Mac 2 (or Miller 2 per preference)"
    ELSE IF Lt(age, Num(10)) THEN "Mac 2-3"
    ELSE "Mac 3 (or video laryngoscope as per device)"

\* x rounded to the nearest multiple of step, an exact midpoint going up.
NearestStep(x, step) ==
    LET q == Div(x, step)
    IN  Mul(Num((2 * q.n + q.d) \div (2 * q.d)), step)

\* The outputs that need the weight are absent: no dose rows, no fluid and
\* no arrest values.
WeightOutputsAbsent ==
    /\ medRows = << >>
    /\ miv = undefined /\ bolus = undefined
    /\ shocks = undefined /\ epi = undefined

\* C2 as stated: with the weight input empty, for every age input all dose,
\* airway-size (cuffed, uncuffed, depth by size), fluid and arrest outputs
\* are undefined, and the blade is determined from age alone.
C2_Original ==
    weightValue = "" =>
        /\ WeightOutputsAbsent
        /\ airway.cuffed = undefined /\ airway.uncuffed = undefined
        /\ airway.depthBySize = undefined
        /\ airway.blade = BladeByAge(ageY)

\* C2 amended: with the weight input empty, the dose, fluid and arrest
\* outputs are undefined and the blade is determined from age alone; the
\* airway sizes and the depth by size are undefined when the age is unknown
\* or below 1 year, and are the age-based values when the age is 1 year or
\* more.
C2_Amended ==
    weightValue = "" =>
        /\ kg = undefined
        /\ WeightOutputsAbsent
        /\ airway.blade = BladeByAge(ageY)
        /\ (ageY = undefined \/ Lt(ageY, Num(1))) =>
               /\ airway.cuffed = undefined /\ airway.uncuffed = undefined
               /\ airway.depthBySize = undefined
        /\ (ageY # undefined /\ Le(Num(1), ageY)) =>
               /\ airway.cuffed = NearestStep(Add(Div(ageY, Num(4)), R(7, 2)), R(1, 2))
               /\ airway.uncuffed = NearestStep(Add(Div(ageY, Num(4)), Num(4)), R(1, 2))
               /\ airway.depthBySize =
                      NearestStep(Mul(Num(3), Add(Div(ageY, Num(4)), R(7, 2))), R(1, 10))

\* C2 witness: weight empty, age 3 years: sizes 4.5 / 5.0 from age, no doses.
C2_Witness ==
    /\ weightValue = "" /\ ageY = Num(3)
    /\ airway.cuffed = R(9, 2) /\ airway.uncuffed = Num(5)
    /\ medRows = << >> /\ epi = undefined

\* The cap of entry m, Infinity when it has none.
CapOfEntry(m) ==
    IF \E c \in CappedEntries : c[1] = m.name
    THEN (CHOOSE c \in CappedEntries : c[1] = m.name)[2]
    ELSE Infinity

\* The rounding step of a dose unit: mcg to 1, mg to 0.05.
StepOfUnit(u) == IF u = "mcg" THEN Num(1) ELSE R(1, 20)

\* The bound perKg * kg of entry m, capped and rounded to the unit's step.
RoundedBound(m, j, k) ==
    NearestStep(MathMin(Mul(m.perKg[j], k), CapOfEntry(m)), StepOfUnit(m.units))

\* C3: for every entry and every known weight kg > 0 the dose label is a
\* single value exactly when low and high are equal after rounding, and a
\* range otherwise; a range never shows the same number on both sides.
C3_SingleIffRoundedEqual ==
    KnownPositive(kg) =>
        \A i \in 1..Len(MEDS) :
            LET lo == RoundedBound(MEDS[i], 1, kg)
                hi == RoundedBound(MEDS[i], 2, kg)
            IN  /\ medRows[i].calc =
                       IF lo = hi THEN Single(lo, MEDS[i].units)
                       ELSE Range(lo, hi, MEDS[i].units)
                /\ "low" \in DOMAIN medRows[i].calc =>
                       medRows[i].calc.low # medRows[i].calc.high

\* The 4-2-1 maintenance rate as the fluid contract states it, for kg >= 0.
Maintenance421(k) ==
    IF k = Zero THEN Zero
    ELSE IF Le(k, Num(10)) THEN Mul(Num(4), k)
    ELSE IF Le(k, Num(20)) THEN Add(Num(40), Mul(Num(2), Sub(k, Num(10))))
    ELSE Add(Num(60), Sub(k, Num(20)))

\* The weights the weight field can produce from the sampled inputs.
SampledWeights ==
    { parseWeight(v, u) : v \in Take(WeightSamples, NumWeightSamples), u \in {"kg", "lb"} }

\* C4: mIV_421 is 0 at 0 kg, 4*kg on (0,10], 40+2*(kg-10) on (10,20] and
\* 60+(kg-20) above 20; it is non-decreasing for kg > 0; at kg = 10 and
\* kg = 20 the two adjacent branches agree (40 and 60).
C4_Maintenance ==
    (IsNumber(kg) /\ Le(Zero, kg)) =>
        /\ mIV_421(kg) = Maintenance421(kg)
        /\ KnownPositive(kg) => miv = Maintenance421(kg)
        /\ \A k2 \in SampledWeights :
               (KnownPositive(kg) /\ IsNumber(k2) /\ Le(kg, k2)) =>
                   Le(mIV_421(kg), mIV_421(k2))
        /\ kg = Num(10) =>
               mIV_first10(kg) = Num(40) /\ mIV_next10(kg) = Num(40) /\ miv = Num(40)
        /\ kg = Num(20) =>
               mIV_next10(kg) = Num(60) /\ mIV_beyond20(kg) = Num(60) /\ miv = Num(60)

\* C4 witness: at 20 kg the rate is 60 mL/hr.
C4_Witness == weightValue = "20" /\ weightUnit = "kg" /\ kg = Num(20) /\ miv = Num(60)

\* x rounded to k decimals, an exact midpoint going up.
NearestDecimals(x, k) == NearestStep(x, R(1, Pow10(k)))

\* C5: for every age >= 1 year, whatever the weight, uncuffed ID = age/4 + 4
\* and cuffed ID = age/4 + 3.5, each rounded to the nearest 0.5 (midpoints
\* up), and depth by age = 12 + age/2 rounded to 0.1; kg = 20, age = 3 gives
\* uncuffed 5.0, cuffed 4.5 and depth by age 13.5.
C5_AgeBasedSizes ==
    /\ (ageY # undefined /\ Le(Num(1), ageY)) =>
           /\ airway.uncuffed = NearestStep(Add(Div(ageY, Num(4)), Num(4)), R(1, 2))
           /\ airway.cuffed = NearestStep(Add(Div(ageY, Num(4)), R(7, 2)), R(1, 2))
           /\ airway.depthByAge = NearestDecimals(Add(Num(12), Div(ageY, Num(2))), 1)
    /\ (kg = Num(20) /\ ageY = Num(3)) =>
           /\ airway.uncuffed = Num(5)
           /\ airway.cuffed = R(9, 2)
           /\ airway.depthByAge = R(27, 2)

\* C5 witness: 20 kg, 3 years.
C5_Witness ==
    /\ kg = Num(20) /\ ageY = Num(3)
    /\ airway.uncuffed = Num(5) /\ airway.cuffed = R(9, 2) /\ airway.depthByAge = R(27, 2)

\* The size of the weight brackets, as the airway contract states them.
BracketSize(k) ==
    IF Lt(k, R(3, 2)) THEN R(5, 2)
    ELSE IF Lt(k, Num(3)) THEN Num(3)
    ELSE IF Lt(k, Num(4)) THEN R(7, 2)
    ELSE R(7, 2)

\* C6: with the age unknown or below 1 year, a known weight selects the size
\* from the weight brackets alone (2.5 / 3.0 / 3.5 / 3.5 mm), cuffed and
\* uncuffed identical; with the weight unknown as well, both are undefined.
C6_WeightBrackets ==
    (ageY = undefined \/ Lt(ageY, Num(1))) =>
        /\ kg # undefined =>
               /\ airway.cuffed = BracketSize(kg)
               /\ airway.uncuffed = airway.cuffed
        /\ kg = undefined =>
               airway.cuffed = undefined /\ airway.uncuffed = undefined

\* C6 witness: an infant of 8 months at 1.5 kg gets 3.0 mm.
C6_Witness ==
    /\ ageY = R(2, 3) /\ kg = R(3, 2)
    /\ airway.cuffed = Num(3) /\ airway.uncuffed = Num(3)

\* C7 as stated: kg = 5 with the age undefined gives uncuffed = cuffed = 3.0.
C7_Original ==
    (kg = Num(5) /\ ageY = undefined) =>
        airway.uncuffed = Num(3) /\ airway.cuffed = Num(3)

\* C7 amended: kg = 5 with the age undefined gives uncuffed = cuffed = 3.5
\* (the bracket kg >= 4).
C7_Amended ==
    (kg = Num(5) /\ ageY = undefined) =>
        airway.uncuffed = R(7, 2) /\ airway.cuffed = R(7, 2)

\* C7 witness: 5 kg, no age, 3.5 mm.
C7_Witness ==
    /\ weightValue = "5" /\ kg = Num(5) /\ ageY = undefined
    /\ airway.uncuffed = R(7, 2) /\ airway.cuffed = R(7, 2)

\* C8: every canonical value is undefined or within its range: weight > 0,
\* height > 0, age >= 0, for every raw input and unit selection.
C8_CanonicalInRange ==
    /\ kg = undefined \/ (IsNumber(kg) /\ Lt(Zero, kg))
    /\ cm = undefined \/ (IsNumber(cm) /\ Lt(Zero, cm))
    /\ ageY = undefined \/ (IsNumber(ageY) /\ Le(Zero, ageY))

\* A field is supplied when it is neither empty nor non-numeric.
Supplied(s) == s # "" /\ parseFloat(s) # NaN

\* C9: the age is undefined exactly when neither the years nor the months
\* field is supplied (empty and non-numeric count as not supplied, "0" as
\* supplied); otherwise it is (years if supplied else 0) +
\* (months / 12 if supplied else 0).
C9_AgeFromFields ==
    /\ Supplied("0") /\ ~Supplied("") /\ ~Supplied("abc")
    /\ ageY = undefined <=> (~Supplied(ageYearsValue) /\ ~Supplied(ageMonthsValue))
    /\ ageY # undefined =>
           ageY = Add(IF Supplied(ageYearsValue) THEN parseFloat(ageYearsValue) ELSE Zero,
                      IF Supplied(ageMonthsValue)
                      THEN Div(parseFloat(ageMonthsValue), Num(12)) ELSE Zero)

\* C9 witness: months alone (8 months) give a defined age of 2/3 year.
C9_Witness == ageYearsValue = "" /\ ageMonthsValue = "8" /\ ageY = R(2, 3)

LmaBrackets ==
    { [lo |-> Zero,    hi |-> Num(5),   size |-> Num(1),  range |-> "<5 kg"],
      [lo |-> Num(5),  hi |-> Num(10),  size |-> R(3, 2), range |-> "5-10 kg"],
      [lo |-> Num(10), hi |-> Num(20),  size |-> Num(2),  range |-> "10-20 kg"],
      [lo |-> Num(20), hi |-> Num(30),  size |-> R(5, 2), range |-> "20-30 kg"],
      [lo |-> Num(30), hi |-> Num(50),  size |-> Num(3),  range |-> "30-50 kg"],
      [lo |-> Num(50), hi |-> Num(70),  size |-> Num(4),  range |-> "50-70 kg"],
      [lo |-> Num(70), hi |-> Infinity, size |-> Num(5),  range |-> ">=70 kg"] }

\* The circuit classes by weight: the class changes at 10 kg and at 20 kg.
CircuitBrackets ==
    { [lo |-> Zero,    hi |-> Num(10),  class |-> "Infant/pediatric circuit (low compliance)"],
      [lo |-> Num(10), hi |-> Num(20),  class |-> "Pediatric circuit"],
      [lo |-> Num(20), hi |-> Infinity, class |-> "Adult circuit"] }

\* The brackets of a table that hold k: closed below, open above.
BracketsOf(table, k) == { b \in table : Le(b.lo, k) /\ Lt(k, b.hi) }

\* C11: LMA size and circuit class are step functions of the weight alone,
\* with brackets closed on the lower bound (LMA breakpoints 5, 10, 20, 30,
\* 50, 70 kg; circuit breakpoints 10 and 20 kg); every known weight kg > 0
\* falls in exactly one bracket of each; kg = 5 gives size 1.5, "5-10 kg".
C11_LmaAndCircuit ==
    /\ KnownPositive(kg) =>
           /\ Cardinality(BracketsOf(LmaBrackets, kg)) = 1
           /\ \A b \in BracketsOf(LmaBrackets, kg) :
                  lma = [size |-> b.size, range |-> b.range]
           /\ Cardinality(BracketsOf(CircuitBrackets, kg)) = 1
           /\ \A b \in BracketsOf(CircuitBrackets, kg) : circuit = b.class
    /\ kg = Num(5) => lma = [size |-> R(3, 2), range |-> "5-10 kg"]

\* C11 witness: 5 kg gives LMA 1.5, "5-10 kg", and the infant circuit.
C11_Witness ==
    /\ kg = Num(5) /\ lma = [size |-> R(3, 2), range |-> "5-10 kg"]
    /\ circuit = "Infant/pediatric circuit (low compliance)"

\* C12: after any sequence of input-change events every derived value (kg,
\* cm, age, BMI, dose rows, airway estimate, maintenance, bolus, shock
\* energies, epinephrine) equals the engine function applied to the current
\* raw inputs, so no derived value is stale and the outputs depend on the
\* current raw inputs alone, not on the events that led to them.
C12_DerivedFromCurrentInputs ==
    LET kgNow  == parseWeight(weightValue, weightUnit)
        cmNow  == parseHeightCm(heightCmValue, heightFtValue, heightInValue, heightUnit)
        ageNow == parseAgeYears(ageYearsValue, ageMonthsValue)
    IN  /\ kg = kgNow
        /\ cm = cmNow
        /\ ageY = ageNow
        /\ bmi = bmiFromKgCm(kgNow, cmNow)
        /\ medRows = medRowsFor(kgNow)
        /\ lma = lmaFor(kgNow)
        /\ circuit = circuitFor(kgNow)
        /\ airway = ettForAgeWeight(ageNow, kgNow)
        /\ miv = mivFor(kgNow)
        /\ bolus = bolus20(kgNow)
        /\ shocks = palsShockEnergies(kgNow)
        /\ epi = palsEpiArrest(kgNow)

\* C12 witness: after the weight unit and the height mode were toggled and
\* weight, feet and months were typed, the values are those of 10 lb, 3 ft
\* and 8 months.
C12_Witness ==
    /\ weightValue = "10" /\ weightUnit = "lb" /\ kg = R(4536, 1000)
    /\ heightUnit = "ftin" /\ heightFtValue = "3" /\ heightInValue = ""
    /\ cm = R(9144, 100) /\ bmi # undefined
    /\ ageYearsValue = "" /\ ageMonthsValue = "8" /\ ageY = R(2, 3)
    /\ bolus = R(9072, 100) /\ Len(medRows) = Len(MEDS)

\* The rows of the medication table whose entry has the given name.
RowsNamed(name) == { i \in 1..Len(medRows) : medRows[i].name = name }

\* C13: for every known weight kg > 0 the calculated Atropine dose respects
\* both limits of its table note ("Min 0.1 mg; cap 1 mg"): it is never below
\* 0.1 mg and never above 1 mg.
C13_AtropineLimits ==
    KnownPositive(kg) =>
        /\ RowsNamed("Atropine") # {}
        /\ \A i \in RowsNamed("Atropine") :
               /\ medRows[i].note = "Min 0.1 mg; cap 1 mg"
               /\ \A v \in ShownValues(medRows[i].calc) :
                      Le(R(1, 10), v) /\ Le(v, Num(1))

\* C14: wherever ettForAgeWeight returns a size, the depth by size it returns
\* is 3 times the cuffed ID it returns (rounded to 0.1).
C14_DepthIsThreeTimesShownId ==
    airway.cuffed # undefined =>
        airway.depthBySize = NearestDecimals(Mul(Num(3), airway.cuffed), 1)

\* C15: for every known weight kg > 0 the epinephrine dose of the medication
\* table is the same number of milligrams as the mass palsEpiArrest returns
\* for that weight, and is greater than 0.
C15_EpinephrineAgrees ==
    KnownPositive(kg) =>
        /\ RowsNamed("Epinephrine 0.1 mg/mL (code)") # {}
        /\ \A i \in RowsNamed("Epinephrine 0.1 mg/mL (code)") :
               /\ medRows[i].calc.units = "mg"
               /\ ShownValues(medRows[i].calc) = {epi.mg}
               /\ Lt(Zero, epi.mg)

====
